---------------------------- MODULE Spec2Model ----------------------------
(***************************************************************************)
(* Model of BlacklistManager (src/blacklist_manager.py): the denylist kept *)
(* in the dataframe self.blacklist_df and mirrored in blacklist.csv.       *)
(*                                                                         *)
(* A dataframe is a sequence of rows; a row has the five columns of the    *)
(* code.  A cell held in memory is a tagged value                          *)
(*     [k |-> "str", v |-> s]   a Python str                               *)
(*     [k |-> "ts",  v |-> t]   a pandas Timestamp whose text is t         *)
(*     [k |-> "nan", v |-> ""]  the float NaN                              *)
(* and a cell of the CSV file is its text, a string.  Stable ids are the   *)
(* opaque, non-numeric, non-empty strings the upstream service issues.     *)
(***************************************************************************)
EXTENDS Naturals, Sequences, FiniteSets, TLC

VARIABLES
    blacklist_df,     \* self.blacklist_df: sequence of rows
    blacklist_file,   \* blacklist.csv: [st |-> "csv" | "malformed", rows |-> text rows]
    last,             \* the last completed call and what it returned to its caller
    streak,           \* history: how many of add(X) succeeding, remove(X), remove(X)
                      \* the latest calls have made, in that order, for X = last.id
    pc,               \* per caller: position inside an add/remove in flight
    call,             \* per caller: the call in flight or last made
    overlap,          \* history: "none", or what has run concurrently since a call
                      \* last began with the other caller idle: "adds" only, or "mixed"
    region,           \* self.region: characters of the lower-cased region argument
    puuid_cache,      \* self.puuid_cache: function from "name#tag" keys to puuids
    puuid_cache_file, \* puuid_cache.json: [st |-> "absent" | "json" | "malformed", map]
    lookup,           \* the last get_summoner call: its key, upstream calls and result
    resolved,         \* history: key -> puuid of the get_summoner calls that have
                      \* succeeded on this manager
    scan              \* the live-match or match call, when it was the manager's
                      \* last call: the upstream request and answer, and what
                      \* the method returned

denylist_vars == <<blacklist_df, blacklist_file, last, streak>>

caller_vars == <<pc, call, overlap>>

cache_vars == <<region, puuid_cache, puuid_cache_file, lookup, resolved>>

vars == <<blacklist_df, blacklist_file, last, streak, pc, call, overlap,
          region, puuid_cache, puuid_cache_file, lookup, resolved, scan>>

----------------------------------------------------------------------------
(* Bounds and input sets *)

NumIds == 2

IdNames == <<"a", "b", "c", "d">>

Ids == {IdNames[i] : i \in 1..NumIds}

Names == {"Ann"}

\* The optional arguments of add_to_blacklist: its defaults (line 233), or both given.
Optionals == {[reason |-> "", tagline |-> ""], [reason |-> "afk", tagline |-> "NA1"]}

\* The concurrent callers pass the reason and tagline the UI forms pass.
FormOptionals == {[reason |-> "afk", tagline |-> "NA1"]}

Timestamps == {"2024-01-01 10:00:00"}

Callers == {1, 2}

----------------------------------------------------------------------------
(* Cells, rows and the CSV conversion *)

Str(s) == [k |-> "str", v |-> s]

Ts(t) == [k |-> "ts", v |-> t]

NaN == [k |-> "nan", v |-> ""]

Columns == {"summoner_id", "summoner_name", "reason", "date_added", "tagline"}

\* DataFrame.to_csv, one cell: NaN is written as the empty field (na_rep=''),
\* a Timestamp as its text, a str as itself.
to_csv_cell(c) == IF c.k = "nan" THEN "" ELSE c.v

\* pandas.read_csv default na_values (keep_default_na=True): these texts are
\* read back as NaN.
na_values == {"", "NA", "N/A", "NaN", "nan", "null", "NULL", "n/a", "<NA>", "#N/A"}

\* pandas.read_csv, one cell of a non-numeric column: no parse_dates is
\* given, so a timestamp's text stays a str.
read_csv_cell(t) == IF t \in na_values THEN NaN ELSE Str(t)

to_csv(df) == [i \in 1..Len(df) |-> [c \in Columns |-> to_csv_cell(df[i][c])]]

read_csv(rows) == [i \in 1..Len(rows) |-> [c \in Columns |-> read_csv_cell(rows[i][c])]]

EmptyFrame == <<>>

CsvFile(rows) == [st |-> "csv", rows |-> rows]

MalformedFile(rows) == [st |-> "malformed", rows |-> rows]

----------------------------------------------------------------------------
(* Python strings that the code takes apart: sequences of one-character    *)
(* strings, so that lower() and split('#') are computed, not assumed.      *)

UpperCase == <<"A", "B", "C", "D", "E", "F", "G", "H", "I", "J", "K", "L", "M", "N", "O", "P", "Q", "R", "S", "T", "U", "V", "W", "X", "Y", "Z">>

LowerCase == <<"a", "b", "c", "d", "e", "f", "g", "h", "i", "j", "k", "l", "m", "n", "o", "p", "q", "r", "s", "t", "u", "v", "w", "x", "y", "z">>

\* The lower-case letter of each upper-case letter.
to_lower ==
    [c \in {UpperCase[i] : i \in 1..Len(UpperCase)} |->
        LowerCase[CHOOSE i \in 1..Len(UpperCase) : UpperCase[i] = c]]

\* str.lower(), one character.
lower_char(c) == IF c \in DOMAIN to_lower THEN to_lower[c] ELSE c

lower_identity(str) == str

\* str.lower()
lower(str) == [i \in 1..Len(str) |-> lower_char(str[i])]

\* The text of a character sequence, as one string.
RECURSIVE Text(_)
Text(str) == IF str = <<>> THEN "" ELSE str[1] \o Text(Tail(str))

\* '#' in summoner_name
has_hash(str) == \E i \in 1..Len(str) : str[i] = "#"

first_hash(str) == CHOOSE i \in 1..Len(str) : str[i] = "#" /\ \A j \in 1..(i - 1) : str[j] # "#"

\* summoner_name.split('#')[0]
split_part0(str) == SubSeq(str, 1, first_hash(str) - 1)

\* summoner_name.split('#')[1]
split_part1(str) ==
    LET rest == SubSeq(str, first_hash(str) + 1, Len(str))
    IN  IF has_hash(rest) THEN SubSeq(rest, 1, first_hash(rest) - 1) ELSE rest

\* region_to_tagline, lines 84-88.
region_to_tagline ==
    (<<"n", "a", "1">> :> <<"N", "A", "1">>) @@
    (<<"e", "u", "w", "1">> :> <<"E", "U", "W", "1">>) @@
    (<<"e", "u", "n", "1">> :> <<"E", "U", "N", "1">>) @@
    (<<"k", "r">> :> <<"K", "R">>) @@
    (<<"b", "r", "1">> :> <<"B", "R", "1">>) @@
    (<<"j", "p", "1">> :> <<"J", "P", "1">>) @@
    (<<"l", "a", "1">> :> <<"L", "A", "1">>) @@
    (<<"l", "a", "2">> :> <<"L", "A", "2">>) @@
    (<<"o", "c", "1">> :> <<"O", "C", "1">>) @@
    (<<"t", "r", "1">> :> <<"T", "R", "1">>) @@
    (<<"r", "u">> :> <<"R", "U">>)

DefaultRegion == <<"n", "a", "1">>

DefaultTagline == <<"N", "A", "1">>

\* region_to_tagline.get(self.region, "NA1"), line 89.
default_tagline(reg) ==
    IF reg \in DOMAIN region_to_tagline THEN region_to_tagline[reg] ELSE DefaultTagline

----------------------------------------------------------------------------
(* Pure parts of the manager's methods *)

get_blacklist(df) == df

is_blacklisted_never(df, summoner_id) == FALSE

is_blacklisted_first_row(df, summoner_id) ==
    Len(df) > 0 /\ df[1].summoner_id = Str(summoner_id)

\* summoner_id in blacklist['summoner_id'].values
is_blacklisted(df, summoner_id) ==
    \E i \in 1..Len(get_blacklist(df)) : get_blacklist(df)[i].summoner_id = Str(summoner_id)

new_row(summoner_id, summoner_name, reason, tagline, now) ==
    [summoner_id   |-> Str(summoner_id),
     summoner_name |-> Str(summoner_name),
     reason        |-> Str(reason),
     date_added    |-> Ts(now),
     tagline       |-> Str(tagline)]

\* pd.concat that also rewrites the rows already there.
concat_rewriting(df, row) ==
    [i \in 1..Len(df) |-> [df[i] EXCEPT !.reason = row.reason]] \o <<row>>

\* pd.concat([self.blacklist_df, pd.DataFrame([new_row])], ignore_index=True)
concat(df, row) == Append(df, row)

filter_rows_keep_first(df, summoner_id) ==
    IF Len(df) > 0 /\ df[1].summoner_id = Str(summoner_id) THEN df
    ELSE SelectSeq(df, LAMBDA r : r.summoner_id # Str(summoner_id))

\* self.blacklist_df[self.blacklist_df['summoner_id'] != summoner_id]
filter_rows(df, summoner_id) ==
    SelectSeq(df, LAMBDA r : r.summoner_id # Str(summoner_id))

\* What a to_csv call can do to the file: write it; fail in open() and leave
\* it as it was; fail after open(..., 'w') truncated it.
WriteOutcomes == {"written", "refused", "truncated"}

\* _save_blacklist: the file afterwards; every exception is swallowed.
save_file(df, file, outcome) ==
    CASE outcome = "written"   -> CsvFile(to_csv(df))
      [] outcome = "refused"   -> file
      [] outcome = "truncated" -> MalformedFile(<<>>)

\* _save_blacklist: its return value.
save_returns(outcome) == outcome = "written"

\* __init__, lines 43-56, on a file that exists: the dataframe it leaves.
load_frame(file) == IF file.st = "csv" THEN read_csv(file.rows) ELSE EmptyFrame


\* What can happen inside the try block of add_to_blacklist and
\* remove_from_blacklist once the check has passed: one of the write outcomes,
\* or an exception raised before self.blacklist_df is assigned ("raised").
CallOutcomes == WriteOutcomes \cup {"raised"}

\* The messages add_to_blacklist returns: lines 239, 257, 260.
AlreadyMsg == "Player is already in your blacklist"

AddedMsg(summoner_name) == "Added " \o summoner_name \o " to blacklist"

ErrorMsg_as_already == "Player is already in your blacklist"

ErrorMsg == "Error: exception text"

\* remove_from_blacklist returns a bare boolean: there is no message.
NoMsg == ""

\* add_to_blacklist, lines 233-260, as one uninterrupted call: the dataframe
\* and file it leaves and what it returns.  (ok, msg) is the returned pair,
\* out names the branch taken; saved is what _save_blacklist returned, which
\* line 254 discards.
add_to_blacklist(df, file, summoner_id, summoner_name, reason, tagline, now, outcome) ==
    IF is_blacklisted(df, summoner_id)
    THEN [df |-> df, file |-> file, ok |-> FALSE, msg |-> AlreadyMsg,
          out |-> "already", saved |-> "n/a"]
    ELSE IF outcome = "raised"
    THEN [df |-> df, file |-> file, ok |-> FALSE, msg |-> ErrorMsg,
          out |-> "error", saved |-> "n/a"]
    ELSE LET df2 == concat(df, new_row(summoner_id, summoner_name, reason, tagline, now))
         IN  [df    |-> df2,
              file  |-> save_file(df2, file, outcome),
              ok    |-> TRUE,
              msg   |-> AddedMsg(summoner_name),
              out   |-> "added",
              saved |-> IF save_returns(outcome) THEN "yes" ELSE "no"]

\* remove_from_blacklist, lines 262-280, as one uninterrupted call.  It
\* returns only ok; out names the branch taken.
remove_from_blacklist(df, file, summoner_id, outcome) ==
    IF ~is_blacklisted(df, summoner_id)
    THEN [df |-> df, file |-> file, ok |-> FALSE, msg |-> NoMsg,
          out |-> "not_found", saved |-> "n/a"]
    ELSE IF outcome = "raised"
    THEN [df |-> df, file |-> file, ok |-> FALSE, msg |-> NoMsg,
          out |-> "error", saved |-> "n/a"]
    ELSE LET df2 == filter_rows(df, summoner_id)
         IN  [df    |-> df2,
              file  |-> save_file(df2, file, outcome),
              ok    |-> save_returns(outcome),
              msg   |-> NoMsg,
              out   |-> IF save_returns(outcome) THEN "removed" ELSE "save_failed",
              saved |-> IF save_returns(outcome) THEN "yes" ELSE "no"]

----------------------------------------------------------------------------
(* The identity cache and get_summoner *)

Puuids == {"p1", "p2"}

\* json.dump / json.load of a str -> str dict: the file holds the dict's
\* key/value pairs, and loading rebuilds the dict from them.
json_dump(cache) == {<<k, cache[k]>> : k \in DOMAIN cache}

json_load(pairs) ==
    [k \in {pr[1] : pr \in pairs} |-> (CHOOSE pr \in pairs : pr[1] = k)[2]]

EmptyCache == json_load({})

AbsentCacheFile == [st |-> "absent", pairs |-> {}]

JsonFile(pairs) == [st |-> "json", pairs |-> pairs]

MalformedCacheFile == [st |-> "malformed", pairs |-> {}]

\* _save_puuid_cache, lines 68-71: open(..., 'w') and json.dump.  Nothing is
\* caught here: a refused open leaves the file as it was, a write cut short
\* leaves a file json.load rejects, and both raise.
save_cache_file(cache, file, outcome) ==
    IF outcome = "written" THEN JsonFile(json_dump(cache))
    ELSE IF outcome = "refused" THEN file
    ELSE MalformedCacheFile

\* _save_puuid_cache has no try: a write that did not complete raises into
\* get_summoner's try block.
save_raises_never(outcome) == FALSE

save_raises(outcome) == outcome # "written"

\* __init__, lines 58-66.
init_cache(file) == IF file.st = "json" THEN json_load(file.pairs) ELSE EmptyCache

\* Line 127: self.puuid_cache[cache_key] = account['puuid']
cache_put_dropped(cache, key, puuid) == cache

cache_put_alone(cache, key, puuid) == (key :> puuid)

cache_put(cache, key, puuid) == (key :> puuid) @@ cache

\* Line 92: f"{summoner_name.lower()}#{tagline.lower()}"
cache_key(name, tag) == Text(lower(name)) \o "#" \o Text(lower(tag))

by_riot_id(name, tag) ==
    [api |-> "account.by_riot_id", name |-> Text(name), tag |-> Text(tag), puuid |-> ""]

by_puuid(puuid) ==
    [api |-> "summoner.by_puuid", name |-> "", tag |-> "", puuid |-> puuid]

\* What the upstream API answers: account.by_riot_id gives an account with a
\* puuid, summoner.by_puuid gives the summoner of the puuid asked for, and
\* either call can raise ApiError or any other exception.
UpstreamFailures == {[st |-> "api_error", puuid |-> ""], [st |-> "error", puuid |-> ""]}

AccountResponses == {[st |-> "ok", puuid |-> p] : p \in Puuids} \cup UpstreamFailures

SummonerResponses == {[st |-> "ok", puuid |-> ""]} \cup UpstreamFailures

\* Lines 76-80: a '#' in the name overrides the tagline argument.
parsed_name(summoner_name) ==
    IF has_hash(summoner_name) THEN split_part0(summoner_name) ELSE summoner_name

parsed_tagline_supplied(summoner_name, tagline) ==
    IF has_hash(summoner_name) /\ tagline = <<>> THEN split_part1(summoner_name) ELSE tagline

parsed_tagline(summoner_name, tagline) ==
    IF has_hash(summoner_name) THEN split_part1(summoner_name) ELSE tagline

\* Lines 82-89.
effective_tagline_na1(reg, tag) == IF tag = <<>> THEN DefaultTagline ELSE tag

effective_tagline(reg, tag) == IF tag = <<>> THEN default_tagline(reg) ELSE tag

\* A failure that leaves the puuid it got so far in the cache.
raised_storing(cache, file, key, name, tag, calls, saved) ==
    [cache |-> IF Len(calls) = 2 THEN (key :> calls[2].puuid) @@ cache ELSE cache,
     file |-> file, key |-> key, calls |-> calls, st |-> "raised",
     puuid |-> "", gameName |-> Text(name), tagline |-> Text(tag), saved |-> saved]

\* Lines 134-139: both handlers raise Exception("Could not find summoner
\* 'name#tag' in region ...").
raised(cache, file, key, name, tag, calls, saved) ==
    [cache |-> cache, file |-> file, key |-> key, calls |-> calls, st |-> "raised",
     puuid |-> "", gameName |-> Text(name), tagline |-> Text(tag), saved |-> saved]

\* Lines 98-106 and 118-132: the summoner dict with tagline, gameName, name.
\* saved: whether puuid_cache.json was written by the call ("n/a": no write).
found(cache, file, key, name, tag, calls, puuid, saved) ==
    [cache |-> cache, file |-> file, key |-> key, calls |-> calls, st |-> "ok",
     puuid |-> puuid, gameName |-> Text(name), tagline |-> Text(tag), saved |-> saved]

\* get_summoner, lines 73-139.  account and summoner are the upstream
\* answers, outcome what the write of puuid_cache.json does.
get_summoner(reg, cache, file, summoner_name, tagline, account, summoner, outcome) ==
    LET name == parsed_name(summoner_name)
        tag  == effective_tagline(reg, parsed_tagline(summoner_name, tagline))
        key  == cache_key(name, tag)
    IN  IF key \in DOMAIN cache
        THEN LET calls == <<by_puuid(cache[key])>>
             IN  IF summoner.st = "ok"
                 THEN found(cache, file, key, name, tag, calls, cache[key], "n/a")
                 ELSE raised(cache, file, key, name, tag, calls, "n/a")
        ELSE IF account.st # "ok"
        THEN raised(cache, file, key, name, tag, <<by_riot_id(name, tag)>>, "n/a")
        ELSE LET calls  == <<by_riot_id(name, tag), by_puuid(account.puuid)>>
                 cache2 == cache_put(cache, key, account.puuid)
             IN  IF summoner.st # "ok"
                 THEN raised(cache, file, key, name, tag, calls, "n/a")
                 ELSE IF ~save_raises(outcome)
                 THEN found(cache2, save_cache_file(cache2, file, outcome), key,
                            name, tag, calls, account.puuid,
                            IF outcome = "written" THEN "yes" ELSE "no")
                 ELSE raised(cache2, save_cache_file(cache2, file, outcome), key,
                             name, tag, calls, "no")

----------------------------------------------------------------------------
(* The live match: get_current_match and check_current_match_for_blacklisted *)

\* dict.get(field, default)
Get(dict, field, default) == IF field \in DOMAIN dict THEN dict[field] ELSE default

\* The upstream team codes.
BlueTeamId == 100

RedTeamId == 200

\* Spectator participants; the fields differ between API versions.
ParticipantA ==
    [summonerId |-> "a", summonerName |-> "Ann", championName |-> "Ahri",
     teamId |-> BlueTeamId]

ParticipantB ==
    [summonerId |-> "b", name |-> "Bob", championName |-> "Lux", teamId |-> RedTeamId]

ParticipantZ ==
    [id |-> "z", riotIdGameName |-> "Zoe", championId |-> "142", teamId |-> BlueTeamId]

Matches ==
    {<<ParticipantA, ParticipantB>>,
     <<ParticipantB, ParticipantZ, ParticipantA>>,
     <<ParticipantZ>>}

\* What spectator.by_summoner does: answers with the match, raises ApiError
\* with an HTTP status, or fails otherwise (no connection, no 'puuid' key).
ApiErrorStatuses == {"400", "403", "404", "429", "500"}

SpectatorResponses ==
    {[st |-> "ok", status |-> "200", participants |-> m] : m \in Matches}
        \cup {[st |-> "api_error", status |-> c, participants |-> <<>>] :
                  c \in ApiErrorStatuses}
        \cup {[st |-> "error", status |-> "", participants |-> <<>>]}

NoMatch(out) == [st |-> "none", participants |-> <<>>, out |-> out]

\* get_current_match, lines 208-231: the match, or None on every failure.
get_current_match(response) ==
    IF response.st = "ok"
    THEN [st |-> "match", participants |-> response.participants, out |-> "match"]
    ELSE IF response.st = "api_error"
    THEN IF response.status = "404" THEN NoMatch("not_in_game_404")
         ELSE IF response.status = "400" THEN NoMatch("not_in_game_400")
         ELSE NoMatch("api_error")
    ELSE NoMatch("error")

\* Line 319
participant_id(participant) ==
    Get(participant, "summonerId", Get(participant, "id", ""))

\* Lines 322-324
participant_name(participant) ==
    Get(participant, "summonerName",
        Get(participant, "name", Get(participant, "riotIdGameName", "Unknown Player")))

\* Line 330
participant_champion_unknown(participant) == "Unknown"

participant_champion(participant) ==
    Get(participant, "championName", Get(participant, "championId", "Unknown"))

\* Lines 333-334: f"#{tagline}" if tagline else "" (NaN is truthy).
tag_display(cell) ==
    IF cell.k = "nan" THEN "#nan" ELSE IF cell.v = "" THEN "" ELSE "#" \o cell.v

\* Line 327: blacklist[blacklist['summoner_id'] == summoner_id].iloc[0]
first_row(df, summoner_id) ==
    df[CHOOSE i \in 1..Len(df) :
           /\ df[i].summoner_id.v = summoner_id
           /\ \A j \in 1..(i - 1) : df[j].summoner_id.v # summoner_id]

\* Lines 336-342
joined_record(participant, info) ==
    [summoner_id |-> participant_id(participant),
     summoner_name |-> participant_name(participant) \o tag_display(info.tagline),
     champion |-> participant_champion(participant),
     reason |-> info.reason,
     date_added |-> info.date_added]

\* Lines 317-342, the loop over current_match['participants'].
RECURSIVE scan_participants(_, _)
scan_participants(df, participants) ==
    IF participants = <<>> THEN <<>>
    ELSE LET participant == Head(participants)
             rest == scan_participants(df, Tail(participants))
         IN  IF is_blacklisted(df, participant_id(participant))
             THEN <<joined_record(participant,
                                  first_row(df, participant_id(participant)))>> \o rest
             ELSE rest

\* The same records, walked in the order of the denylist rows.
RECURSIVE scan_denylist(_, _)
scan_denylist(df, participants) ==
    IF df = <<>> THEN <<>>
    ELSE LET hit == SelectSeq(participants,
                        LAMBDA q : participant_id(q) = Head(df).summoner_id.v)
         IN  (IF hit = <<>> THEN <<>> ELSE <<joined_record(hit[1], Head(df))>>)
                 \o scan_denylist(Tail(df), participants)

check_in_denylist_order(df, current_match) ==
    IF current_match.st = "none" THEN <<>>
    ELSE scan_denylist(get_blacklist(df), current_match.participants)

\* check_current_match_for_blacklisted, lines 302-344.
check_current_match_for_blacklisted(df, current_match) ==
    IF current_match.st = "none" THEN <<>>
    ELSE scan_participants(get_blacklist(df), current_match.participants)

\* get_blacklist, lines 285-289: what self.blacklist_df is after the call.
\* An initialized manager always has a dataframe, so the re-read of the
\* file is never taken.
frame_after_get_blacklist_reloading(df, file) ==
    IF file.st = "absent" THEN EmptyFrame ELSE load_frame(file)

frame_after_get_blacklist(df, file) == df

\* app.py 630-631: p.get('teamId', p.get('team', '')) == 100, == 200
on_team(participants, code) ==
    SelectSeq(participants, LAMBDA q : Get(q, "teamId", Get(q, "team", "")) = code)

\* app.py 636-638 and 668-670: one line of the team listing, with the
\* warning sign when is_blacklisted(player_id).
listed_player(df, player) ==
    [summoner_id |-> participant_id(player),
     flagged |-> is_blacklisted(df, participant_id(player))]

\* app.py 633-691: the blue team's lines, then the red team's.
team_listing(df, participants) ==
    LET shown == on_team(participants, BlueTeamId) \o on_team(participants, RedTeamId)
    IN  [i \in 1..Len(shown) |-> listed_player(df, shown[i])]

NoScan ==
    [op |-> "none", response |-> "", status |-> "", participants |-> <<>>,
     st |-> "none", records |-> <<>>, request |-> <<>>, match_ids |-> <<>>,
     listing |-> <<>>]

Scanned(op, response, current_match, records) ==
    [op |-> op, response |-> response.st, status |-> response.status,
     participants |-> response.participants, st |-> current_match.st,
     records |-> records, request |-> <<>>, match_ids |-> <<>>, listing |-> <<>>]

----------------------------------------------------------------------------
(* Finished matches: get_match_history and get_match_details *)

\* A dict entry, or none when the upstream answer lacks the field.
Absent == "(absent)"

Field(name, value) == IF value = Absent THEN <<>> ELSE (name :> value)

\* A match-v5 participant: the four name fields may be missing or empty.
MatchParticipant(summonerName, riotIdGameName, playerName, name, teamId) ==
    Field("summonerName", summonerName) @@ Field("riotIdGameName", riotIdGameName)
        @@ Field("playerName", playerName) @@ Field("name", name)
        @@ [summonerId |-> "a", championName |-> "Ahri", teamId |-> teamId]

MatchParticipants ==
    {MatchParticipant(a, b, c, d, t) :
        a \in {Absent, "", "Unknown", "Ann"}, b \in {Absent, "", "Rin"},
        c \in {Absent, "", "Pat"}, d \in {Absent, "Nan"},
        t \in {BlueTeamId, RedTeamId}}

\* What match.by_id answers: one participant of any shape, or a few in a
\* given order; or it fails.
MatchAnswers ==
    {<<p>> : p \in MatchParticipants}
        \cup {<<[MatchParticipant("Ann", Absent, Absent, Absent, RedTeamId)
                     EXCEPT !.summonerId = "c"],
                [MatchParticipant("", "Rin", Absent, Absent, BlueTeamId)
                     EXCEPT !.summonerId = "b"],
                MatchParticipant(Absent, Absent, Absent, Absent, RedTeamId)>>}

MatchResponses ==
    {[st |-> "ok", status |-> "200", participants |-> m] : m \in MatchAnswers}
        \cup {[st |-> "api_error", status |-> c, participants |-> <<>>] :
                  c \in {"404", "429"}}
        \cup {[st |-> "error", status |-> "", participants |-> <<>>]}

\* Lines 177-183
match_summoner_name(participant) ==
    LET summoner_name == Get(participant, "summonerName", "Unknown")
    IN  IF summoner_name = "" \/ summoner_name = "Unknown"
        THEN Get(participant, "riotIdGameName",
                 Get(participant, "playerName",
                     Get(participant, "name", "Unknown Player")))
        ELSE summoner_name

\* Line 191
team_swapped(teamId) == IF teamId = BlueTeamId THEN "Red" ELSE "Blue"

team(teamId) == IF teamId = BlueTeamId THEN "Blue" ELSE "Red"

\* Lines 186-193
participant_info(participant) ==
    [summoner_id |-> Get(participant, "summonerId", ""),
     summoner_name |-> match_summoner_name(participant),
     champion |-> participant_champion(participant),
     team |-> team(participant.teamId),
     tagline |-> Get(participant, "riotIdTagline", "")]

\* get_match_details, lines 166-206: the participant records in upstream
\* order, or Exception("Error retrieving match details: ...").
get_match_details(response) ==
    IF response.st = "ok"
    THEN [st |-> "ok",
          participants |-> [i \in 1..Len(response.participants) |->
                               participant_info(response.participants[i])]]
    ELSE [st |-> "raised", participants |-> <<>>]

MatchIdAnswers == {<<>>, <<"m1">>, <<"m2", "m1">>, <<"m1", "m3", "m2">>}

MatchlistResponses ==
    {[st |-> "ok", status |-> "200", match_ids |-> m] : m \in MatchIdAnswers}
        \cup {[st |-> "api_error", status |-> c, match_ids |-> <<>>] :
                  c \in {"404", "429"}}
        \cup {[st |-> "error", status |-> "", match_ids |-> <<>>]}

Limits == {1, 5}

Starts == {0, 5}

matchlist_request_swapped(puuid, limit, start) ==
    [puuid |-> puuid, start |-> limit, count |-> start]

\* Lines 149-154: matchlist_by_puuid(region, puuid, start=start, count=limit)
matchlist_request(puuid, limit, start) ==
    [puuid |-> puuid, start |-> start, count |-> limit]

\* get_match_history, lines 141-164: the upstream list as it came, or
\* Exception("Error retrieving match history: ...").
get_match_history(puuid, limit, start, response) ==
    IF response.st = "ok"
    THEN [st |-> "ok", request |-> matchlist_request(puuid, limit, start),
          match_ids |-> response.match_ids]
    ELSE [st |-> "raised", request |-> matchlist_request(puuid, limit, start),
          match_ids |-> <<>>]

----------------------------------------------------------------------------
(* State after construction *)

AbsentFile == [st |-> "absent", rows |-> <<>>]

SeedRows == to_csv(<<new_row("a", "Ann", "afk", "NA1", "2024-01-01 10:00:00")>>)

\* What blacklist.csv can be when the manager is constructed: missing, a
\* header-only or one-row file written by an earlier run, or a file that
\* read_csv rejects (rows: the records its bytes still hold).
StartupFiles ==
    {AbsentFile, CsvFile(<<>>), CsvFile(SeedRows), MalformedFile(SeedRows)}

\* __init__, lines 43-56: it returns normally on every path; out tells
\* whether read_csv raised and lines 54-56 replaced the list by an empty one.
init_frame(startup) == IF startup.st = "absent" THEN EmptyFrame ELSE load_frame(startup)

init_file(startup) == IF startup.st = "absent" THEN CsvFile(to_csv(EmptyFrame)) ELSE startup

NoCall == [op |-> "none", id |-> "", row |-> new_row("", "", "", "", ""),
           ok |-> FALSE, msg |-> NoMsg, out |-> "none", saved |-> "n/a"]

Returned(op, id, r) ==
    [op |-> op, id |-> id, ok |-> r.ok, msg |-> r.msg, out |-> r.out, saved |-> r.saved]

Constructed(startup) ==
    [op |-> "init", id |-> "", ok |-> TRUE, msg |-> NoMsg,
     out |-> IF startup.st = "malformed" THEN "load_error" ELSE "loaded",
     saved |-> "n/a"]

\* The last get_summoner call: its arguments, the cache key and upstream
\* calls it made, what it returned or raised, and the puuid that
\* account.by_riot_id answered when it was asked and answered.
NoLookup ==
    [op |-> "none", arg_name |-> "", arg_tagline |-> "", key |-> "", calls |-> <<>>,
     st |-> "none", puuid |-> "", gameName |-> "", tagline |-> "", account |-> "",
     folded |-> "", saved |-> "n/a"]

Looked(summoner_name, tagline, r, account, folded) ==
    [op |-> "get_summoner", arg_name |-> Text(summoner_name),
     arg_tagline |-> Text(tagline), key |-> r.key, calls |-> r.calls, st |-> r.st,
     puuid |-> r.puuid, gameName |-> r.gameName, tagline |-> r.tagline,
     account |-> IF r.calls[1].api = "account.by_riot_id" THEN account.puuid ELSE "",
     folded |-> folded, saved |-> r.saved]

\* BlacklistManager(api_key, region, blacklist_file, puuid_cache_file) on the
\* two files as they are found.
InitFrom(startup, region_arg, cache_startup) ==
    /\ blacklist_df = init_frame(startup)
    /\ blacklist_file = init_file(startup)
    /\ last = Constructed(startup)
    /\ streak = 0
    /\ pc = [c \in Callers |-> "idle"]
    /\ call = [c \in Callers |-> NoCall]
    /\ overlap = "none"
    /\ region = lower(region_arg)
    /\ puuid_cache = init_cache(cache_startup)
    /\ puuid_cache_file = cache_startup
    /\ lookup = NoLookup
    /\ resolved = EmptyCache
    /\ scan = NoScan

Init == \E startup \in StartupFiles : InitFrom(startup, DefaultRegion, AbsentCacheFile)

----------------------------------------------------------------------------
(* One caller at a time: every call runs to completion *)

AddToBlacklist ==
    \E id \in Ids, name \in Names, opt \in Optionals,
       now \in Timestamps, outcome \in CallOutcomes :
        LET r == add_to_blacklist(blacklist_df, blacklist_file, id, name, opt.reason,
                                  opt.tagline, now, outcome)
        IN  /\ blacklist_df' = r.df
            /\ blacklist_file' = r.file
            /\ last' = Returned("add", id, r)
            /\ streak' = IF r.ok THEN 1 ELSE 0
            /\ scan' = NoScan
            /\ UNCHANGED <<caller_vars, cache_vars>>

\* Between the membership test and the return nothing but the write can
\* fail for string ids on a frame with the five columns, and _save_blacklist
\* catches that itself: the except of lines 278-280 is not drawn here.
RemoveFromBlacklist ==
    \E id \in Ids, outcome \in WriteOutcomes :
        LET r == remove_from_blacklist(blacklist_df, blacklist_file, id, outcome)
        IN  /\ blacklist_df' = r.df
            /\ blacklist_file' = r.file
            /\ last' = Returned("remove", id, r)
            /\ streak' = IF streak \in {1, 2} /\ last.id = id THEN streak + 1 ELSE 0
            /\ scan' = NoScan
            /\ UNCHANGED <<caller_vars, cache_vars>>

\* A fresh BlacklistManager(...) on the file as it is now (app.py 196, 218).
Construct ==
    /\ blacklist_df' = init_frame(blacklist_file)
    /\ blacklist_file' = init_file(blacklist_file)
    /\ last' = Constructed(blacklist_file)
    /\ streak' = 0
    /\ puuid_cache' = init_cache(puuid_cache_file)
    /\ lookup' = NoLookup
    /\ resolved' = EmptyCache
    /\ scan' = NoScan
    /\ UNCHANGED <<caller_vars, region, puuid_cache_file>>

Next == AddToBlacklist \/ RemoveFromBlacklist \/ Construct

Spec == Init /\ [][Next]_vars

----------------------------------------------------------------------------
(* Resolving players: get_summoner calls on one manager, and fresh         *)
(* managers on the cache file as it is.                                     *)

SummonerNameArgs == {<<"A", "b">>, <<"a", "B">>, <<"A", "b", "#", "K", "R">>}

TaglineArgs == {<<>>, <<"K", "R">>, <<"n", "a", "1">>}

\* Region arguments: an upper-case known region, and one the tables lack.
RegionArgs == {<<"K", "R">>, <<"x", "x">>}

\* Letter case folded away, for telling which calls name the same player.
LetterPairs == {<<UpperCase[i], LowerCase[i]>> : i \in 1..Len(UpperCase)}

Folded ==
    [c \in {pr[1] : pr \in LetterPairs} \cup {pr[2] : pr \in LetterPairs} |->
        (CHOOSE pr \in LetterPairs : c \in {pr[1], pr[2]})[2]]

RECURSIVE CaseFolded(_)
CaseFolded(str) ==
    IF str = <<>> THEN <<>>
    ELSE <<IF Head(str) \in DOMAIN Folded THEN Folded[Head(str)] ELSE Head(str)>>
             \o CaseFolded(Tail(str))

FoldedKey(name, tag) == Text(CaseFolded(name)) \o "#" \o Text(CaseFolded(tag))

GetSummonerOf(names) ==
    \E summoner_name \in names, tagline \in TaglineArgs,
       account \in AccountResponses, summoner \in SummonerResponses,
       outcome \in WriteOutcomes :
        \E r \in {get_summoner(region, puuid_cache, puuid_cache_file, summoner_name,
                                tagline, account, summoner, outcome)},
           folded \in {FoldedKey(parsed_name(summoner_name),
                                 effective_tagline(region,
                                     parsed_tagline(summoner_name, tagline)))} :
            /\ puuid_cache' = r.cache
            /\ puuid_cache_file' = r.file
            /\ lookup' = Looked(summoner_name, tagline, r, account, folded)
            /\ resolved' = IF r.st = "ok" THEN resolved @@ (folded :> r.puuid)
                           ELSE resolved
            /\ UNCHANGED <<denylist_vars, caller_vars, region, scan>>

GetSummoner == GetSummonerOf(SummonerNameArgs)

InitCache ==
    \E region_arg \in RegionArgs : InitFrom(AbsentFile, region_arg, AbsentCacheFile)

NextCache == GetSummoner \/ Construct

SpecCache == InitCache /\ [][NextCache]_vars

\* The search of app.py 215-233: the first get_summoner call on a manager
\* that has just been constructed.
SearchSummoner == lookup.op = "none" /\ GetSummoner

NextSearch == SearchSummoner \/ Construct

SpecSearch == InitCache /\ [][NextSearch]_vars

\* get_summoner called directly on a new manager, with whatever name the
\* caller has: the method is public and app.py is not its only caller.
ResolveNameArgs == {<<>>, <<"A", "b">>}

ResolveIdentity == lookup.op = "none" /\ GetSummonerOf(ResolveNameArgs)

NextResolve == ResolveIdentity \/ Construct

SpecResolve == InitCache /\ [][NextResolve]_vars

----------------------------------------------------------------------------
(* The live game check, between additions to the denylist and fresh        *)
(* managers.                                                                *)

GetCurrentMatch ==
    \E response \in SpectatorResponses :
        /\ scan' = Scanned("get_current_match", response,
                           get_current_match(response), <<>>)
        /\ UNCHANGED <<denylist_vars, caller_vars, cache_vars>>

CheckCurrentMatch ==
    \E response \in SpectatorResponses :
        /\ scan' = Scanned("check_current_match_for_blacklisted", response,
                           get_current_match(response),
                           check_current_match_for_blacklisted(
                               blacklist_df, get_current_match(response)))
        /\ blacklist_df' = IF get_current_match(response).st = "none"
                           THEN blacklist_df
                           ELSE frame_after_get_blacklist(blacklist_df, blacklist_file)
        /\ UNCHANGED <<blacklist_file, last, streak, caller_vars, cache_vars>>

IsBlacklisted ==
    \E id \in Ids :
        /\ scan' = [NoScan EXCEPT !.op = "is_blacklisted", !.st = "ok",
                                  !.request = <<id>>,
                                  !.records = <<is_blacklisted(blacklist_df, id)>>]
        /\ blacklist_df' = frame_after_get_blacklist(blacklist_df, blacklist_file)
        /\ UNCHANGED <<blacklist_file, last, streak, caller_vars, cache_vars>>

GetBlacklist ==
    /\ scan' = [NoScan EXCEPT !.op = "get_blacklist", !.st = "ok",
                              !.records = get_blacklist(blacklist_df)]
    /\ blacklist_df' = frame_after_get_blacklist(blacklist_df, blacklist_file)
    /\ UNCHANGED <<blacklist_file, last, streak, caller_vars, cache_vars>>

NextScan ==
    \/ AddToBlacklist
    \/ Construct
    \/ GetCurrentMatch
    \/ CheckCurrentMatch
    \/ IsBlacklisted
    \/ GetBlacklist

SpecScan == Init /\ [][NextScan]_vars

----------------------------------------------------------------------------
(* Looking at finished matches *)

GetMatchHistory ==
    \E puuid \in Puuids, limit \in Limits, start \in Starts,
       response \in MatchlistResponses :
        LET r == get_match_history(puuid, limit, start, response)
        IN  /\ scan' = [op |-> "get_match_history", response |-> response.st,
                        status |-> response.status, participants |-> <<>>,
                        st |-> r.st, records |-> r.match_ids,
                        request |-> <<puuid, limit, start, r.request>>,
                        match_ids |-> response.match_ids, listing |-> <<>>]
            /\ UNCHANGED <<denylist_vars, caller_vars, cache_vars>>

GetMatchDetails ==
    \E response \in MatchResponses :
        LET r == get_match_details(response)
        IN  /\ scan' = [op |-> "get_match_details", response |-> response.st,
                        status |-> response.status,
                        participants |-> response.participants,
                        st |-> r.st, records |-> r.participants,
                        request |-> <<>>, match_ids |-> <<>>, listing |-> <<>>]
            /\ UNCHANGED <<denylist_vars, caller_vars, cache_vars>>

\* The live game check of app.py once the summoner is resolved, lines
\* 610-708: get_current_match for the listing, then
\* check_current_match_for_blacklisted, which asks the service again.
LiveGameCheck ==
    \E first \in SpectatorResponses, second \in SpectatorResponses :
        LET current_match == get_current_match(first)
        IN  /\ scan' = IF current_match.st = "none"
                       THEN [NoScan EXCEPT !.op = "live_game_check",
                                           !.response = first.st,
                                           !.status = first.status]
                       ELSE [NoScan EXCEPT
                                !.op = "live_game_check",
                                !.response = first.st,
                                !.status = first.status,
                                !.participants = current_match.participants,
                                !.st = "match",
                                !.request = <<second.st, second.status>>,
                                !.records = check_current_match_for_blacklisted(
                                                blacklist_df, get_current_match(second)),
                                !.listing = team_listing(blacklist_df,
                                                current_match.participants)]
            /\ blacklist_df' = IF current_match.st = "none" THEN blacklist_df
                               ELSE frame_after_get_blacklist(blacklist_df, blacklist_file)
            /\ UNCHANGED <<blacklist_file, last, streak, caller_vars, cache_vars>>

NextLive == AddToBlacklist \/ Construct \/ LiveGameCheck

SpecLive == Init /\ [][NextLive]_vars

NextMatch == GetMatchHistory \/ GetMatchDetails

SpecMatch == Init /\ [][NextMatch]_vars

----------------------------------------------------------------------------
(* Two callers re-entering one manager.  The methods take no lock, so a    *)
(* call is three steps that the other caller's steps can separate: the     *)
(* is_blacklisted check, the assignment to self.blacklist_df, and          *)
(* _save_blacklist, which writes the dataframe as it is when it runs.      *)

Other(c) == CHOOSE d \in Callers : d # c

InFlight(c) == pc[c] # "idle"

Concurrency(c, op) ==
    IF ~InFlight(Other(c)) THEN "none"
    ELSE IF overlap # "mixed" /\ op = "add" /\ call[Other(c)].op = "add" THEN "adds"
    ELSE "mixed"

\* add_to_blacklist, lines 236-248: the check, and the early return.
BeginAdd(c) ==
    \E id \in Ids, name \in Names, opt \in FormOptionals, now \in Timestamps :
        /\ pc[c] = "idle"
        /\ overlap' = Concurrency(c, "add")
        /\ IF is_blacklisted(blacklist_df, id)
           THEN /\ call' = [call EXCEPT ![c] =
                       [op |-> "add", id |-> id, row |-> NoCall.row,
                        ok |-> FALSE, msg |-> AlreadyMsg, out |-> "already",
                        saved |-> "n/a"]]
                /\ pc' = pc
           ELSE /\ call' = [call EXCEPT ![c] =
                       [op |-> "add", id |-> id,
                        row |-> new_row(id, name, opt.reason, opt.tagline, now),
                        ok |-> FALSE, msg |-> NoMsg, out |-> "pending",
                        saved |-> "n/a"]]
                /\ pc' = [pc EXCEPT ![c] = "append"]
        /\ UNCHANGED <<blacklist_df, blacklist_file, last, streak, cache_vars, scan>>

\* add_to_blacklist, line 251.
AppendRow(c) ==
    /\ pc[c] = "append"
    /\ blacklist_df' = concat(blacklist_df, call[c].row)
    /\ pc' = [pc EXCEPT ![c] = "save"]
    /\ UNCHANGED <<blacklist_file, last, streak, call, overlap, cache_vars, scan>>

\* remove_from_blacklist, lines 266-268: the check, and the early return.
BeginRemove(c) ==
    \E id \in Ids :
        /\ pc[c] = "idle"
        /\ overlap' = Concurrency(c, "remove")
        /\ IF ~is_blacklisted(blacklist_df, id)
           THEN /\ call' = [call EXCEPT ![c] =
                       [op |-> "remove", id |-> id, row |-> NoCall.row,
                        ok |-> FALSE, msg |-> NoMsg, out |-> "not_found",
                        saved |-> "n/a"]]
                /\ pc' = pc
           ELSE /\ call' = [call EXCEPT ![c] =
                       [op |-> "remove", id |-> id, row |-> NoCall.row,
                        ok |-> FALSE, msg |-> NoMsg, out |-> "pending",
                        saved |-> "n/a"]]
                /\ pc' = [pc EXCEPT ![c] = "filter"]
        /\ UNCHANGED <<blacklist_df, blacklist_file, last, streak, cache_vars, scan>>

\* remove_from_blacklist, line 271.
FilterRows(c) ==
    /\ pc[c] = "filter"
    /\ blacklist_df' = filter_rows(blacklist_df, call[c].id)
    /\ pc' = [pc EXCEPT ![c] = "save"]
    /\ UNCHANGED <<blacklist_file, last, streak, call, overlap, cache_vars, scan>>

\* _save_blacklist and the return: lines 254-257 of add, 274-277 of remove.
SaveAndReturn(c) ==
    \E outcome \in WriteOutcomes :
        /\ pc[c] = "save"
        /\ blacklist_file' = save_file(blacklist_df, blacklist_file, outcome)
        /\ call' = [call EXCEPT ![c] =
               [@ EXCEPT !.row = NoCall.row,
                         !.ok = (call[c].op = "add") \/ save_returns(outcome),
                         !.msg = IF call[c].op = "add"
                                 THEN AddedMsg(call[c].row.summoner_name.v)
                                 ELSE NoMsg,
                         !.out = IF call[c].op = "add" THEN "added"
                                 ELSE IF save_returns(outcome) THEN "removed"
                                 ELSE "save_failed",
                         !.saved = IF save_returns(outcome) THEN "yes" ELSE "no"]]
        /\ pc' = [pc EXCEPT ![c] = "idle"]
        /\ UNCHANGED <<blacklist_df, last, streak, overlap, cache_vars, scan>>

NextConc ==
    \E c \in Callers :
        BeginAdd(c) \/ AppendRow(c) \/ BeginRemove(c) \/ FilterRows(c) \/ SaveAndReturn(c)

SpecConc == Init /\ [][NextConc]_vars

----------------------------------------------------------------------------
(* Properties *)

\* The denylist holds a row for this stable id (read off the rows, not
\* through is_blacklisted).
HasEntry(df, id) == \E i \in 1..Len(df) : df[i].summoner_id.v = id

RowSet(rows) == {rows[i] : i \in 1..Len(rows)}

Idle == \A c \in Callers : pc[c] = "idle"

\* C1: after any sequence of add_to_blacklist, remove_from_blacklist and
\* fresh constructions, no two rows of the denylist carry the same
\* summoner_id; the action offers every id, present or not, so it is the
\* check inside add_to_blacklist that keeps the rows apart.
C1_AtMostOneEntryPerId ==
    \A i, j \in 1..Len(blacklist_df) :
        blacklist_df[i].summoner_id = blacklist_df[j].summoner_id => i = j

\* Two ids have been added, the second by a call that returned success.
C1_Witness ==
    /\ Len(blacklist_df) >= 2
    /\ last.op = "add"
    /\ last.out = "added"

\* C2: an add_to_blacklist call for an id that has a row returns
\* (False, already in your blacklist) and leaves get_blacklist as it was,
\* from every reachable state, so also when repeated.
C2_AddOfPresentIdRejected ==
    [][(last'.op = "add" /\ HasEntry(blacklist_df, last'.id))
          => /\ ~last'.ok
             /\ last'.out = "already"
             /\ get_blacklist(blacklist_df') = get_blacklist(blacklist_df)
             /\ Len(get_blacklist(blacklist_df')) = Len(get_blacklist(blacklist_df))]_vars

\* An add for an id that is not in the first row was rejected as present.
C2_Witness ==
    /\ last.op = "add"
    /\ last.out = "already"
    /\ HasEntry(blacklist_df, last.id)
    /\ blacklist_df[1].summoner_id.v # last.id

\* C3: when two add_to_blacklist calls of the two callers ran concurrently
\* (with nothing but adds running beside them) and both have returned: for
\* one id, exactly one returned success and the other already-exists; for two
\* ids whose writes both succeeded, both ids are in the dataframe and in the
\* file.
C3_ConcurrentAddsSerialize ==
    (Idle /\ overlap = "adds" /\ call[1].op = "add" /\ call[2].op = "add")
        => IF call[1].id = call[2].id
           THEN \E c \in Callers :
                    /\ call[c].ok /\ call[c].out = "added"
                    /\ ~call[Other(c)].ok /\ call[Other(c)].out = "already"
           ELSE (\A c \in Callers : call[c].ok /\ call[c].saved = "yes")
                    => \A c \in Callers :
                           /\ HasEntry(blacklist_df, call[c].id)
                           /\ blacklist_file.st = "csv"
                           /\ \E i \in 1..Len(blacklist_file.rows) :
                                  blacklist_file.rows[i].summoner_id = call[c].id

\* C4: an add_to_blacklist call that got past the check returns success
\* exactly when the write succeeded, and when the write failed the dataframe
\* is what it was before the call.
C4_AddSucceedsOnlyIfSaved ==
    [][(last'.op = "add" /\ ~HasEntry(blacklist_df, last'.id))
          => IF last'.saved = "yes"
             THEN last'.ok
             ELSE /\ ~last'.ok
                  /\ blacklist_df' = blacklist_df
                  /\ ~HasEntry(blacklist_df', last'.id)]_vars

\* C5: a remove_from_blacklist call that found the id and whose write failed
\* returns False and leaves the dataframe as it was before the call, the row
\* still in it.
C5_RemoveRolledBackIfNotSaved ==
    [][(last'.op = "remove" /\ HasEntry(blacklist_df, last'.id) /\ last'.saved = "no")
          => /\ ~last'.ok
             /\ blacklist_df' = blacklist_df
             /\ is_blacklisted(blacklist_df', last'.id)]_vars

\* C6: a construction that found the file unparsable does not return a
\* usable manager (and so never one with an empty denylist).
C6_MalformedFileIsFatal ==
    (last.op = "init" /\ last.out = "load_error") => ~last.ok

\* C7: right after add_to_blacklist(X) succeeded and remove_from_blacklist(X)
\* was called, is_blacklisted(X) is false; and a second remove(X) right after
\* returns False by the not-found branch.
C7_AddRemoveRemove ==
    /\ streak >= 2 => ~is_blacklisted(blacklist_df, last.id)
    /\ streak = 3 => (last.op = "remove" /\ ~last.ok /\ last.out = "not_found")

\* add(X) succeeded and two remove(X) calls followed it.
C7_Witness == streak = 3

\* C8: across every add or remove call, is_blacklisted(id) becomes true if
\* the call was a successful add of id, false if it was a successful remove
\* of id, and keeps its value otherwise.
C8_MembershipFollowsSuccessfulCalls ==
    [][last'.op \in {"add", "remove"}
          => \A id \in Ids :
                 is_blacklisted(blacklist_df', id) =
                     IF last'.ok /\ last'.id = id THEN last'.op = "add"
                     ELSE is_blacklisted(blacklist_df, id)]_vars

\* C9: constructing the manager afresh on a file that holds exactly what the
\* dataframe holds gives back the same rows, every field equal, same order.
C9_ReloadGivesSameEntries ==
    [][(last'.op = "init" /\ blacklist_file = CsvFile(to_csv(blacklist_df)))
          => get_blacklist(blacklist_df') = get_blacklist(blacklist_df)]_vars

\* C10: once an add or remove call has been made, whenever no call is in
\* progress the file's entries are the dataframe's entries.
C10_FileMirrorsMemory ==
    (Idle /\ last.op \in {"add", "remove"})
        => RowSet(blacklist_file.rows) = RowSet(to_csv(blacklist_df))

\* What remove_from_blacklist returns for an id that has no row.
NotFoundReturn ==
    LET r == remove_from_blacklist(EmptyFrame, CsvFile(<<>>), "a", "written")
    IN  <<r.ok, r.msg>>

\* C11: a remove_from_blacklist call for an id with no row leaves dataframe
\* and file unchanged, and what it returns differs from what remove returns
\* when the write failed or an exception was raised.
C11_NotFoundDistinctFromFailure ==
    [][last'.op = "remove"
          => /\ last'.out = "not_found"
                    => /\ blacklist_df' = blacklist_df
                       /\ blacklist_file' = blacklist_file
             /\ last'.out \in {"save_failed", "error"}
                    => <<last'.ok, last'.msg>> # NotFoundReturn]_vars

\* What add_to_blacklist returns for an id that has a row.
AlreadyReturn ==
    LET r == add_to_blacklist(read_csv(SeedRows), CsvFile(SeedRows), "a", "Ann", "", "",
                              "2024-01-01 10:00:00", "written")
    IN  <<r.ok, r.msg>>

\* C12: whenever add_to_blacklist ended by a failed write or by an exception,
\* the pair it returned differs from the pair it returns for an id that is
\* already present.
C12_AlreadyDistinctFromFailure ==
    (last.op = "add" /\ (last.out = "error" \/ last.saved = "no"))
        => <<last.ok, last.msg>> # AlreadyReturn

\* An add ended in the except branch of lines 258-260.
C12_Witness ==
    /\ last.op = "add"
    /\ last.out = "error"
    /\ <<last.ok, last.msg>> = <<FALSE, ErrorMsg>>


\* C13: on one manager, once a get_summoner call has succeeded for a name
\* and tag, every later call whose name and tag are the same up to letter
\* case makes exactly one upstream call, summoner.by_puuid with the puuid
\* the first call obtained, and no account.by_riot_id call.
C13_CachedIdentityReused ==
    [][(lookup'.op = "get_summoner" /\ lookup'.folded \in DOMAIN resolved)
          => lookup'.calls = <<by_puuid(resolved[lookup'.folded])>>]_vars

\* A call that spelled the name in another case than the cache key was
\* answered from the cache.
C13_Witness ==
    /\ lookup.op = "get_summoner"
    /\ lookup.st = "ok"
    /\ lookup.arg_name = "aB"
    /\ lookup.key = "ab#kr"
    /\ lookup.folded \in DOMAIN resolved
    /\ lookup.calls = <<by_puuid(resolved[lookup.folded])>>

\* C14: a get_summoner call whose case-folded name#tag key is not in the
\* cache and that returns successfully has called account.by_riot_id with
\* the name and tag and then summoner.by_puuid with the puuid it answered,
\* and when it returns both self.puuid_cache and puuid_cache.json map that
\* key to that puuid.
C14_MissResolvesAndStores ==
    [][(/\ lookup'.op = "get_summoner"
        /\ lookup'.folded \notin DOMAIN puuid_cache
        /\ lookup'.st = "ok")
          => /\ Len(lookup'.calls) = 2
             /\ lookup'.calls[1].api = "account.by_riot_id"
             /\ lookup'.calls[1].name = lookup'.gameName
             /\ lookup'.calls[1].tag = lookup'.tagline
             /\ lookup'.calls[2] = by_puuid(lookup'.account)
             /\ lookup'.folded \in DOMAIN puuid_cache'
             /\ puuid_cache'[lookup'.folded] = lookup'.account
             /\ puuid_cache_file'.st = "json"
             /\ <<lookup'.folded, lookup'.account>> \in puuid_cache_file'.pairs]_vars

\* A second player key was resolved by a miss: two upstream calls, and the
\* new mapping is in memory and in the file beside the older one.
C14_Witness ==
    /\ lookup.op = "get_summoner"
    /\ lookup.st = "ok"
    /\ Len(lookup.calls) = 2
    /\ Cardinality(DOMAIN puuid_cache) = 2
    /\ puuid_cache[lookup.folded] = lookup.account
    /\ puuid_cache_file = JsonFile(json_dump(puuid_cache))

PlainNames == {<<"A", "b">>, <<"a", "B">>}

EmbeddedTaglines == {<<>>, <<"K", "R">>, <<"k", "r">>}

\* "N#T"
RiotId(name, tag) == name \o <<"#">> \o tag

\* C15: from the manager's current region, cache and cache file, and for
\* the same upstream answers, get_summoner("N#T", S) and get_summoner(N, T)
\* make the same upstream calls, use the same cache key, return or raise
\* the same thing and leave the same cache and cache file, for every name N
\* and embedded tag T without '#' and every supplied tag S.
C15_EmbeddedTagOverridesSupplied ==
    \A name \in PlainNames, tag \in EmbeddedTaglines, supplied \in TaglineArgs,
       account \in AccountResponses, summoner \in SummonerResponses,
       outcome \in WriteOutcomes :
        get_summoner(region, puuid_cache, puuid_cache_file, RiotId(name, tag),
                     supplied, account, summoner, outcome)
            = get_summoner(region, puuid_cache, puuid_cache_file, name, tag,
                           account, summoner, outcome)

\* A call named the player "Ab#KR" with another tag supplied, and was
\* resolved under the embedded tag.
C15_Witness ==
    /\ lookup.op = "get_summoner"
    /\ lookup.st = "ok"
    /\ lookup.arg_name = "Ab#KR"
    /\ lookup.arg_tagline = "na1"
    /\ lookup.key = "ab#kr"
    /\ lookup.tagline = "KR"

\* C16: a get_summoner call with an empty tag behaves as the call with the
\* default tag of the manager's region does (NA1 when the region is not in
\* the table): same cache key, same upstream calls, same result, same cache
\* and cache file afterwards.
C16_EmptyTagIsRegionDefault ==
    \A name \in PlainNames, account \in AccountResponses,
       summoner \in SummonerResponses, outcome \in WriteOutcomes :
        LET tag == IF region \in DOMAIN region_to_tagline
                   THEN region_to_tagline[region] ELSE DefaultTagline
            r == get_summoner(region, puuid_cache, puuid_cache_file, name, <<>>,
                              account, summoner, outcome)
        IN  /\ r = get_summoner(region, puuid_cache, puuid_cache_file, name, tag,
                                account, summoner, outcome)
            /\ r.key = FoldedKey(name, tag)

\* In region kr a call without a tag was answered from the cache entry of
\* tag KR.
C16_Witness ==
    /\ region = <<"k", "r">>
    /\ lookup.op = "get_summoner"
    /\ lookup.st = "ok"
    /\ lookup.arg_tagline = ""
    /\ lookup.tagline = "KR"
    /\ lookup.key = "ab#kr"
    /\ lookup.calls = <<by_puuid(puuid_cache["ab#kr"])>>

\* C17: when the write of puuid_cache.json fails in a get_summoner call,
\* the call raises to its caller, self.puuid_cache holds the new mapping
\* all the same, and the next call for the same player on this manager is
\* answered from the cache: summoner.by_puuid alone, with that puuid.
C17_FailedCacheWriteKeepsMemory ==
    [][/\ (lookup'.op = "get_summoner" /\ lookup'.saved = "no" /\ lookup' # lookup)
            => /\ lookup'.st = "raised"
               /\ lookup'.folded \in DOMAIN puuid_cache'
               /\ puuid_cache'[lookup'.folded] = lookup'.account
               /\ <<lookup'.folded, lookup'.account>> \notin puuid_cache_file'.pairs
       /\ (/\ lookup.saved = "no"
           /\ lookup'.op = "get_summoner"
           /\ lookup'.folded = lookup.folded
           /\ lookup' # lookup)
            => lookup'.calls = <<by_puuid(lookup.account)>>]_vars

\* The call after a failed write was answered from memory, while the file
\* still lacks the mapping.
C17_Witness ==
    /\ lookup.op = "get_summoner"
    /\ lookup.st = "ok"
    /\ Len(lookup.calls) = 1
    /\ lookup.calls[1].api = "summoner.by_puuid"
    /\ lookup.folded \in DOMAIN puuid_cache
    /\ <<lookup.folded, puuid_cache[lookup.folded]>> \notin puuid_cache_file.pairs

\* The answers by which the upstream service says that the player is not
\* in a game: the not-found status, and the 400 the code reads the same way.
NoActiveGameStatuses == {"404", "400"}

\* C18: get_current_match returns None only when spectator.by_summoner
\* raised ApiError with a no-active-game status; after any other upstream
\* failure (403, 429, 500, a transport error) it does not return None.
C18_OnlyNoActiveGameIsNone ==
    (scan.op = "get_current_match" /\ scan.st = "none")
        => (scan.response = "api_error" /\ scan.status \in NoActiveGameStatuses)

ParticipantIds(participants) ==
    [i \in 1..Len(participants) |-> participant_id(participants[i])]

Champion(participant) ==
    IF "championName" \in DOMAIN participant THEN participant.championName
    ELSE IF "championId" \in DOMAIN participant THEN participant.championId
    ELSE "Unknown"

\* C19: check_current_match_for_blacklisted returns no record when
\* get_current_match gave no match; otherwise it returns one record for
\* each participant whose id has a denylist row and none for the others,
\* and each record carries the reason and date_added of that row and the
\* champion of that participant.
C19_OneRecordPerDenylistedParticipant ==
    scan.op = "check_current_match_for_blacklisted"
        => /\ scan.st = "none" => scan.records = <<>>
           /\ \A i \in 1..Len(scan.participants) :
                  Cardinality({j \in 1..Len(scan.records) :
                      scan.records[j].summoner_id
                          = ParticipantIds(scan.participants)[i]})
                      = IF HasEntry(blacklist_df, ParticipantIds(scan.participants)[i])
                        THEN 1 ELSE 0
           /\ \A j \in 1..Len(scan.records) :
                  \E i \in 1..Len(scan.participants), k \in 1..Len(blacklist_df) :
                      /\ scan.records[j].summoner_id
                             = ParticipantIds(scan.participants)[i]
                      /\ scan.records[j].champion = Champion(scan.participants[i])
                      /\ blacklist_df[k].summoner_id.v = scan.records[j].summoner_id
                      /\ scan.records[j].reason = blacklist_df[k].reason
                      /\ scan.records[j].date_added = blacklist_df[k].date_added

\* The scenario of the live scan: participants a (Ahri) and b (Lux), only
\* b has a row, and the one record returned is b's, with champion Lux.
C19_Witness ==
    /\ scan.op = "check_current_match_for_blacklisted"
    /\ ParticipantIds(scan.participants) = <<"a", "b">>
    /\ ~HasEntry(blacklist_df, "a")
    /\ Len(scan.records) = 1
    /\ scan.records[1].summoner_id = "b"
    /\ scan.records[1].champion = "Lux"
    /\ scan.records[1].reason = Str("afk")

\* C20: the records of check_current_match_for_blacklisted follow the
\* order of the upstream participant list: of two records, the earlier
\* one belongs to the participant that comes earlier in the list, whatever
\* the order of the denylist rows.
C20_RecordsInParticipantOrder ==
    scan.op = "check_current_match_for_blacklisted"
        => \A j, k \in 1..Len(scan.records) :
               j < k =>
                   \E i1, i2 \in 1..Len(scan.participants) :
                       /\ i1 < i2
                       /\ ParticipantIds(scan.participants)[i1]
                              = scan.records[j].summoner_id
                       /\ ParticipantIds(scan.participants)[i2]
                              = scan.records[k].summoner_id

\* Participants b, z, a with rows for a and b added in the order a, b: the
\* records come as b, a.
C20_Witness ==
    /\ scan.op = "check_current_match_for_blacklisted"
    /\ ParticipantIds(scan.participants) = <<"b", "z", "a">>
    /\ Len(blacklist_df) = 2
    /\ blacklist_df[1].summoner_id.v = "a"
    /\ blacklist_df[2].summoner_id.v = "b"
    /\ Len(scan.records) = 2
    /\ scan.records[1].summoner_id = "b"
    /\ scan.records[2].summoner_id = "a"

\* C21: a failure of an upstream call or of a denylist write reaches the
\* manager's caller as a failure: no call whose write of blacklist.csv
\* failed reports success, and no live-match call whose upstream request
\* failed otherwise than by a no-active-game answer returns a normal result
\* (None, or an empty list of records).
C21_FailuresReachCaller ==
    /\ (last.op \in {"add", "remove"} /\ last.saved = "no") => ~last.ok
    /\ (/\ scan.op \in {"get_current_match", "check_current_match_for_blacklisted"}
        /\ scan.response # "ok"
        /\ ~(scan.response = "api_error" /\ scan.status \in NoActiveGameStatuses))
            => scan.st \notin {"none", "match"}

\* C22: a get_summoner call with an empty name is rejected before any
\* upstream call and leaves the identity cache, in memory and on file, as
\* it was.
C22_EmptyNameRejected ==
    [][(lookup'.op = "get_summoner" /\ lookup'.arg_name = "")
          => /\ lookup'.calls = <<>>
             /\ lookup'.st = "raised"
             /\ puuid_cache' = puuid_cache
             /\ puuid_cache_file' = puuid_cache_file]_vars

\* C23: an entry is never modified while it is in the denylist: across
\* every add_to_blacklist and remove_from_blacklist call, each row that
\* get_blacklist returned before the call is returned after it with the
\* same name, tag, reason and date_added, unless the call removed its id.
C23_EntriesNeverModified ==
    [][last'.op \in {"add", "remove"}
          => \A i \in 1..Len(get_blacklist(blacklist_df)) :
                 \/ /\ last'.op = "remove"
                    /\ last'.id = get_blacklist(blacklist_df)[i].summoner_id.v
                 \/ \E j \in 1..Len(get_blacklist(blacklist_df')) :
                        get_blacklist(blacklist_df')[j] = get_blacklist(blacklist_df)[i]]_vars

\* An entry with a reason is still there after another id was added beside
\* it and removed again.
C23_Witness ==
    /\ last.op = "remove"
    /\ last.out = "removed"
    /\ Len(blacklist_df) = 1
    /\ blacklist_df[1].summoner_id.v # last.id
    /\ blacklist_df[1].reason = Str("afk")

NameFields == <<"summonerName", "riotIdGameName", "playerName", "name">>

\* The field supplies a name: it is there, not empty, and not the
\* placeholder "Unknown" in the primary field.
Usable(participant, f) ==
    /\ NameFields[f] \in DOMAIN participant
    /\ participant[NameFields[f]] # ""
    /\ ~(f = 1 /\ participant[NameFields[f]] = "Unknown")

\* C24: for every participant get_match_details returns the name of the
\* first field, in the order summonerName, riotIdGameName, playerName,
\* name, that supplies one, also when an earlier field is present but
\* empty; and it returns "Unknown Player" only when no field supplies one.
C24_FirstUsableNameField ==
    (scan.op = "get_match_details" /\ scan.st = "ok")
        => \A i \in 1..Len(scan.participants) :
               LET usable == {f \in 1..Len(NameFields) : Usable(scan.participants[i], f)}
                   first == CHOOSE f \in usable : \A g \in usable : f <= g
               IN  /\ usable # {} =>
                          scan.records[i].summoner_name
                              = scan.participants[i][NameFields[first]]
                   /\ scan.records[i].summoner_name = "Unknown Player" => usable = {}

\* C25: get_match_details returns one record per upstream participant, in
\* upstream order, and the record's team is Blue for team code 100 and Red
\* for team code 200.
C25_TeamsAndOrder ==
    (scan.op = "get_match_details" /\ scan.st = "ok")
        => /\ Len(scan.records) = Len(scan.participants)
           /\ \A i \in 1..Len(scan.participants) :
                  /\ scan.records[i].summoner_id = scan.participants[i].summonerId
                  /\ scan.participants[i].teamId = BlueTeamId
                         => scan.records[i].team = "Blue"
                  /\ scan.participants[i].teamId = RedTeamId
                         => scan.records[i].team = "Red"

\* Three participants c, b, a on teams 200, 100, 200 came back as c, b, a
\* on Red, Blue, Red.
C25_Witness ==
    /\ scan.op = "get_match_details"
    /\ Len(scan.participants) = 3
    /\ [i \in 1..3 |-> scan.participants[i].teamId] = <<RedTeamId, BlueTeamId, RedTeamId>>
    /\ [i \in 1..3 |-> scan.records[i].summoner_id] = <<"c", "b", "a">>
    /\ [i \in 1..3 |-> scan.records[i].team] = <<"Red", "Blue", "Red">>

\* C26: get_match_history asks the upstream service with the caller's
\* start and limit (as count) unchanged, and when the service answers it
\* returns the same match ids in the same order, an empty list included,
\* without raising.
C26_HistoryPassedThrough ==
    scan.op = "get_match_history"
        => /\ scan.request[4] = [puuid |-> scan.request[1], start |-> scan.request[3],
                                 count |-> scan.request[2]]
           /\ scan.response = "ok" => (scan.st = "ok" /\ scan.records = scan.match_ids)

\* The service answered limit 5, start 0 with no match ids and the call
\* returned the empty list.
C26_Witness ==
    /\ scan.op = "get_match_history"
    /\ scan.request[2] = 5
    /\ scan.request[3] = 0
    /\ scan.response = "ok"
    /\ scan.match_ids = <<>>
    /\ scan.st = "ok"
    /\ scan.records = <<>>

\* C27: a get_summoner call for a key that is not in the cache and that
\* fails because account.by_riot_id or summoner.by_puuid failed leaves
\* self.puuid_cache and puuid_cache.json as they were.
C27_FailedResolutionLeavesCache ==
    [][(/\ lookup'.op = "get_summoner"
        /\ lookup'.folded \notin DOMAIN puuid_cache
        /\ lookup'.st = "raised"
        /\ lookup'.saved = "n/a")
          => /\ puuid_cache' = puuid_cache
             /\ puuid_cache_file' = puuid_cache_file]_vars

\* account.by_riot_id answered and summoner.by_puuid failed, and the key is
\* not in a cache that holds another key.
C27_Witness ==
    /\ lookup.op = "get_summoner"
    /\ lookup.st = "raised"
    /\ lookup.saved = "n/a"
    /\ Len(lookup.calls) = 2
    /\ lookup.account \in Puuids
    /\ puuid_cache # EmptyCache
    /\ lookup.folded \notin DOMAIN puuid_cache

\* C28: within one manager the identity cache only grows: a get_summoner
\* call, whatever its outcome, keeps every key of self.puuid_cache with the
\* puuid it had, and a call answered from the cache writes neither
\* self.puuid_cache nor puuid_cache.json.
C28_CacheOnlyGrows ==
    [][lookup'.op = "get_summoner"
          => /\ \A k \in DOMAIN puuid_cache :
                    k \in DOMAIN puuid_cache' /\ puuid_cache'[k] = puuid_cache[k]
             /\ lookup'.folded \in DOMAIN puuid_cache
                    => /\ puuid_cache' = puuid_cache
                       /\ puuid_cache_file' = puuid_cache_file]_vars

\* A second key was stored beside the first, the file could not be
\* written, and memory holds both keys while the file holds neither.
C28_Witness ==
    /\ lookup.op = "get_summoner"
    /\ lookup.saved = "no"
    /\ Cardinality(DOMAIN puuid_cache) = 2
    /\ puuid_cache_file.st = "malformed"

ReadOnlyCalls == {"is_blacklisted", "get_blacklist", "check_current_match_for_blacklisted"}

\* C29: is_blacklisted, get_blacklist and
\* check_current_match_for_blacklisted change nothing: across each such
\* call the dataframe, blacklist.csv, the identity cache and
\* puuid_cache.json are what they were, also when memory and file differ.
C29_QueriesAreReadOnly ==
    [][scan'.op \in ReadOnlyCalls
          => /\ blacklist_df' = blacklist_df
             /\ blacklist_file' = blacklist_file
             /\ puuid_cache' = puuid_cache
             /\ puuid_cache_file' = puuid_cache_file]_vars

\* get_blacklist returned the rows in memory while the file, after a
\* write that failed, holds other rows.
C29_Witness ==
    /\ scan.op = "get_blacklist"
    /\ Len(scan.records) >= 1
    /\ scan.records = blacklist_df
    /\ last.saved = "no"
    /\ init_frame(blacklist_file) # blacklist_df

\* C30: in one live game check the summary of blacklisted players agrees
\* with the team listing: a listed participant carries the warning sign
\* exactly when the summary has a record for that participant, whatever
\* the service answers to the second request for the live match.
C30_SummaryAgreesWithListing ==
    (scan.op = "live_game_check" /\ scan.st = "match")
        => \A i \in 1..Len(scan.listing) :
               scan.listing[i].flagged
                   <=> \E j \in 1..Len(scan.records) :
                           scan.records[j].summoner_id = scan.listing[i].summoner_id

============================================================================
